---- MODULE Spec2Model ----
(***************************************************************************)
(* Model of proptest's uniform float samplers                              *)
(* (src/proptest/src/num/float_samplers.rs, macro float_sampler!).         *)
(*                                                                         *)
(* The macro is instantiated for (f32, u32) and (f64, u64).  The model     *)
(* instantiates it for a binary floating-point type of the same IEEE-754   *)
(* layout with fewer bits: one sign bit, a biased exponent field           *)
(* 0..MaxExpField (MaxExpField is infinity / NaN, 0 is zero / subnormal)   *)
(* and MANTISSA_DIGITS-1 fraction bits, round-to-nearest-even, gradual     *)
(* underflow, signed zeros.  A float is its bit pattern (what to_bits      *)
(* returns); the integer type has as many values as there are patterns.    *)
(* Exact values are integers counted in units of the least subnormal.      *)
(***************************************************************************)
EXTENDS Integers, FiniteSets, Sequences, TLC

\* $typ::MANTISSA_DIGITS: significand bits, the implicit one included
MANTISSA_DIGITS == 3
\* the all-ones exponent field (255 for f32)
MaxExpField == 8

FracSize == 2^(MANTISSA_DIGITS - 1)
SignBit == (MaxExpField + 1) * FracSize
Bias == (MaxExpField - 1) \div 2
\* every bit pattern of $typ
Floats == 0..(2 * SignBit - 1)
\* $int_typ::MAX: the pattern with all bits set
INT_MAX == 2 * SignBit - 1

------------------------------------------------------------------------------
(* The floating-point type: decoding, rounding and the operations used.    *)

sign_of(a) == a \div SignBit
exp_of(a) == (a % SignBit) \div FracSize
frac_of(a) == a % FracSize
Bits(s, e, f) == s * SignBit + e * FracSize + f

is_nan(a) == exp_of(a) = MaxExpField /\ frac_of(a) # 0
is_infinite(a) == exp_of(a) = MaxExpField /\ frac_of(a) = 0
is_finite(a) == exp_of(a) < MaxExpField

\* magnitude in units of the least subnormal (infinity: one binade above MAX)
Mag(a) == IF exp_of(a) = 0 THEN frac_of(a)
          ELSE (FracSize + frac_of(a)) * 2^(exp_of(a) - 1)
Val(a) == IF sign_of(a) = 1 THEN -Mag(a) ELSE Mag(a)

\* 1.0 in units
ONE == FracSize * 2^(Bias - 1)
MaxMag == (2 * FracSize - 1) * 2^(MaxExpField - 2)
InfMag == FracSize * 2^(MaxExpField - 1)

PosZero == Bits(0, 0, 0)
NegZero == Bits(1, 0, 0)
\* the NaN an invalid operation produces
QNaN == Bits(0, MaxExpField, FracSize \div 2)
\* $typ::MIN, the most negative finite value
MIN == Bits(1, MaxExpField - 1, FracSize - 1)

RECURSIVE ScaleOf(_, _)
\* ScaleOf(q, 0) is the least k with q < 2^(MANTISSA_DIGITS + k): the floats
\* near q are 2^k apart
ScaleOf(q, k) == IF q < 2 * FracSize THEN k ELSE ScaleOf(q \div 2, k + 1)

\* num/den >= 0 rounded to the nearest representable magnitude, ties to even
RoundMag(num, den) ==
    LET k == ScaleOf(num \div den, 0)
        d == den * 2^k
        n == num \div d
        r == num % d
        m == IF 2 * r < d THEN n
             ELSE IF 2 * r > d THEN n + 1
             ELSE IF n % 2 = 0 THEN n ELSE n + 1
    IN IF m * 2^k > MaxMag THEN InfMag ELSE m * 2^k

\* the bit pattern of sign s and representable magnitude mag
Encode(s, mag) ==
    IF mag < FracSize THEN Bits(s, 0, mag)
    ELSE LET k == ScaleOf(mag, 0)
         IN Bits(s, k + 1, (mag \div 2^k) - FracSize)

\* the float nearest to the signed ratio num/den (num # 0)
FromRatio(num, den) ==
    IF num < 0 THEN Encode(1, RoundMag(-num, den)) ELSE Encode(0, RoundMag(num, den))

abs(a) == a % SignBit
neg(a) == (a + SignBit) % (2 * SignBit)

\* comparisons: false as soon as an operand is NaN; -0 == +0
eq(a, b) == ~is_nan(a) /\ ~is_nan(b) /\ Val(a) = Val(b)
lt(a, b) == ~is_nan(a) /\ ~is_nan(b) /\ Val(a) < Val(b)
le(a, b) == ~is_nan(a) /\ ~is_nan(b) /\ Val(a) <= Val(b)
gt(a, b) == lt(b, a)
ge(a, b) == le(b, a)

add(a, b) ==
    IF is_nan(a) \/ is_nan(b) THEN QNaN
    ELSE IF is_infinite(a) /\ is_infinite(b) THEN (IF a = b THEN a ELSE QNaN)
    ELSE IF is_infinite(a) THEN a
    ELSE IF is_infinite(b) THEN b
    ELSE IF Val(a) + Val(b) = 0
         THEN (IF sign_of(a) = 1 /\ sign_of(b) = 1 THEN NegZero ELSE PosZero)
    ELSE FromRatio(Val(a) + Val(b), 1)

sub(a, b) == add(a, neg(b))

mul(a, b) ==
    LET s == (sign_of(a) + sign_of(b)) % 2
    IN IF is_nan(a) \/ is_nan(b) THEN QNaN
       ELSE IF is_infinite(a) \/ is_infinite(b)
            THEN (IF Mag(a) = 0 \/ Mag(b) = 0 THEN QNaN ELSE Bits(s, MaxExpField, 0))
       ELSE IF Mag(a) = 0 \/ Mag(b) = 0 THEN Bits(s, 0, 0)
       ELSE Encode(s, RoundMag(Mag(a) * Mag(b), ONE))

div(a, b) ==
    LET s == (sign_of(a) + sign_of(b)) % 2
    IN IF is_nan(a) \/ is_nan(b) THEN QNaN
       ELSE IF is_infinite(a) THEN (IF is_infinite(b) THEN QNaN ELSE Bits(s, MaxExpField, 0))
       ELSE IF is_infinite(b) THEN Bits(s, 0, 0)
       ELSE IF Mag(b) = 0 THEN (IF Mag(a) = 0 THEN QNaN ELSE Bits(s, MaxExpField, 0))
       ELSE IF Mag(a) = 0 THEN Bits(s, 0, 0)
       ELSE Encode(s, RoundMag(Mag(a) * ONE, Mag(b)))

\* a.mul_add(b, c): a * b + c with a single rounding (finite operands)
mul_add(a, b, c) ==
    LET s == (sign_of(a) + sign_of(b)) % 2
        num == Val(a) * Val(b) + Val(c) * ONE
    IN IF ~(is_finite(a) /\ is_finite(b) /\ is_finite(c)) THEN QNaN
       ELSE IF num = 0
            THEN (IF Val(a) * Val(b) = 0 /\ s = 1 /\ sign_of(c) = 1
                  THEN NegZero ELSE PosZero)
       ELSE FromRatio(num, ONE)

floor(a) ==
    IF ~is_finite(a) THEN a
    ELSE IF sign_of(a) = 0 THEN Encode(0, (Mag(a) \div ONE) * ONE)
    ELSE Encode(1, ((Mag(a) + ONE - 1) \div ONE) * ONE)

ceil(a) ==
    IF ~is_finite(a) THEN a
    ELSE IF sign_of(a) = 0 THEN Encode(0, ((Mag(a) + ONE - 1) \div ONE) * ONE)
    ELSE Encode(1, (Mag(a) \div ONE) * ONE)

\* 1.0 or -1.0 by the sign bit (zeros and infinities included), NaN for NaN
signum(a) == IF is_nan(a) THEN QNaN ELSE Encode(sign_of(a), ONE)

min(a, b) == IF is_nan(a) THEN b ELSE IF is_nan(b) THEN a ELSE IF lt(b, a) THEN b ELSE a
max(a, b) == IF is_nan(a) THEN b ELSE IF is_nan(b) THEN a ELSE IF lt(a, b) THEN b ELSE a

\* x as $int_typ: truncates, saturates, NaN is 0
float_as_int(a) ==
    IF is_nan(a) \/ sign_of(a) = 1 THEN 0
    ELSE IF is_infinite(a) \/ Mag(a) \div ONE > INT_MAX THEN INT_MAX
    ELSE Mag(a) \div ONE

\* n as $typ: the nearest float
int_as_float(n) == IF n = 0 THEN PosZero ELSE Encode(0, RoundMag(n * ONE, 1))

------------------------------------------------------------------------------
(* float_samplers.rs                                                       *)

\* the literals 1. and 2., and $typ::EPSILON: the next float after 1. less 1.
One == Encode(0, ONE)
Two == Encode(0, 2 * ONE)
EPSILON == Encode(0, ONE \div FracSize)

\* debug_assert!(a.is_finite() && a > $typ::MIN) of next_down and of ulp
valid_input(a) == is_finite(a) /\ gt(a, MIN)

\* $typ::from_bits(a.to_bits() + 1), $typ::from_bits(a.to_bits() - 1)
bits_plus_one(a) == (a + 1) % (INT_MAX + 1)
bits_minus_one(a) == (a + INT_MAX) % (INT_MAX + 1)

\* mutant of next_down: the two bit steps exchanged
next_down_swapped(a) ==
    IF eq(a, PosZero) THEN neg(1)
    ELSE IF lt(a, PosZero) THEN bits_minus_one(a)
    ELSE bits_plus_one(a)

next_down(a) ==
    IF eq(a, PosZero) THEN neg(1)
    ELSE IF lt(a, PosZero) THEN bits_plus_one(a)
    ELSE bits_minus_one(a)

ulp(a) == sub(abs(a), next_down(abs(a)))

MAX_PRECISE_INT == 2^MANTISSA_DIGITS

\* a call that ended in a panic returns no lattice
NoValues == [start |-> PosZero, end |-> PosZero, step |-> PosZero, count |-> 0]
Panicked(msg) == [panic |-> msg, values |-> NoValues]
Returned(v) == [panic |-> "", values |-> v]

\* mutant of pick_end: the tie |low| == |high| decided the other way
pick_end_le(low, high) == IF le(abs(low), abs(high)) THEN low ELSE high
\* mutant of pick_step: the step never negated
pick_step_unsigned(low, high, gap) == gap

\* the elements of the tuple chosen at lines 137-141
pick_start(low, high) == IF lt(abs(low), abs(high)) THEN high ELSE low
pick_end(low, high) == IF lt(abs(low), abs(high)) THEN low ELSE high
pick_step(low, high, gap) == IF lt(abs(low), abs(high)) THEN neg(gap) ELSE gap

\* mutant of range_asserts: high - low > 0.
range_asserts_strict(low, high) == gt(sub(high, low), PosZero)

\* assert!(high - low >= 0., "invalid range")
range_asserts(low, high) == ge(sub(high, low), PosZero)

\* mutant of gap_of: the spacing of the bound nearer to zero
gap_of_min(min_abs, max_abs) == ulp(min_abs)

\* let gap = ulp(max_abs)
gap_of(min_abs, max_abs) == ulp(max_abs)

\* mutant of count_of: min_gaps rounded down on both branches
count_of_floor(low, high, min_gaps, max_gaps) ==
    (IF eq(signum(low), signum(high))
     THEN float_as_int(max_gaps) - float_as_int(floor(min_gaps))
     ELSE float_as_int(max_gaps) + float_as_int(floor(min_gaps))) + 1

\* lines 150-154, before the integer arithmetic is checked for overflow
count_of(low, high, min_gaps, max_gaps) ==
    (IF eq(signum(low), signum(high))
     THEN float_as_int(max_gaps) - float_as_int(floor(min_gaps))
     ELSE float_as_int(max_gaps) + float_as_int(ceil(min_gaps))) + 1

\* SampleValueCollection::new_inclusive; dbg: debug assertions and overflow
\* checks are compiled in
new_inclusive(low, high, dbg) ==
    IF ~is_finite(low) THEN Panicked("low finite")
    ELSE IF ~is_finite(high) THEN Panicked("high finite")
    ELSE IF ~range_asserts(low, high) THEN Panicked("invalid range")
    ELSE
    LET min_abs == min(abs(low), abs(high))
        max_abs == max(abs(low), abs(high))
        gap == gap_of(min_abs, max_abs)
        min_gaps == div(min_abs, gap)
        max_gaps == div(max_abs, gap)
        exact == count_of(low, high, min_gaps, max_gaps)
        count == exact % (INT_MAX + 1)
    IN IF dbg /\ ~valid_input(max_abs) THEN Panicked("ulp invalid input")
       ELSE IF dbg /\ ~eq(floor(max_gaps), max_gaps) THEN Panicked("max_gaps is an integer")
       ELSE IF dbg /\ (exact < 1 \/ exact > INT_MAX) THEN Panicked("arithmetic overflow")
       ELSE IF dbg /\ ~(count - 1 <= 2 * MAX_PRECISE_INT)
            THEN Panicked("assertion failed: count - 1 <= 2 * MAX_PRECISE_INT")
       ELSE Returned([start |-> pick_start(low, high),
                      end |-> pick_end(low, high),
                      step |-> pick_step(low, high, gap),
                      count |-> count])

\* mutant of get_inner: index as $typ * step + start
get_inner_direct(v, index) == add(mul(int_as_float(index), v.step), v.start)

\* lines 177-180: start + index * step through index / 2 and index % 2
get_inner(v, index) ==
    mul_add(int_as_float(index \div 2),
            mul(Two, v.step),
            add(mul(int_as_float(index % 2), v.step), v.start))

\* mutant of get: the last index computed like the others
get_no_end(v, index) == get_inner(v, index)

\* SampleValueCollection::get for an index that passes the assertion
get(v, index) == IF index = v.count - 1 THEN v.end ELSE get_inner(v, index)

\* assert!(index < self.count)
get_asserts(v, index) == index < v.count

\* FloatUniform::new: the lattice over [low, next_down(high)]; Uniform::new(0, count)
\* panics on an empty range
FloatUniform_new(low, high, dbg) ==
    IF dbg /\ ~valid_input(high) THEN Panicked("next_down invalid input")
    ELSE LET r == new_inclusive(low, next_down(high), dbg)
         IN IF r.panic = "" /\ r.values.count = 0
            THEN Panicked("Uniform::new called with low >= high") ELSE r

FloatUniform_new_inclusive(low, high, dbg) ==
    LET r == new_inclusive(low, high, dbg)
    IN IF r.panic = "" /\ r.values.count = 0
       THEN Panicked("Uniform::new called with low >= high") ELSE r

\* test::sort
sort(left, right) == IF lt(left, right) THEN <<left, right>> ELSE <<right, left>>

------------------------------------------------------------------------------
(* The state machine: two bounds are given, a sampler is constructed from   *)
(* them and a value is drawn from it.  The sampler is immutable (sample and *)
(* get take &self), so a later draw finds the sampler the first draw found: *)
(* a behaviour follows one draw.                                            *)

\* how many indices past the last one get is called with
MaxOver == 1

VARIABLES
    pc,       \* "args", "built", "returned", "panicked"
    call,     \* the constructor or function called on the arguments
    low,      \* the first argument
    high,     \* the second argument
    values,   \* the SampleValueCollection of the sampler
    index,    \* the index last given to get
    result,   \* the value last returned
    panic     \* the message of the assertion that failed

vars == <<pc, call, low, high, values, index, result, panic>>

Init ==
    /\ pc = "args"
    /\ call = "none"
    /\ low \in Floats
    /\ high \in Floats
    /\ values = NoValues
    /\ index = 0
    /\ result = PosZero
    /\ panic = ""

Construct(name, r) ==
    /\ call' = name
    /\ pc' = IF r.panic = "" THEN "built" ELSE "panicked"
    /\ panic' = r.panic
    /\ values' = r.values
    /\ UNCHANGED <<low, high, index, result>>

\* FloatUniform::new(low, high)
New ==
    /\ pc = "args"
    /\ \E dbg \in BOOLEAN : Construct("new", FloatUniform_new(low, high, dbg))

\* FloatUniform::new_inclusive(low, high)
NewInclusive ==
    /\ pc = "args"
    /\ \E dbg \in BOOLEAN :
          Construct("new_inclusive", FloatUniform_new_inclusive(low, high, dbg))

\* FloatUniform::sample: the index is drawn from Uniform::new(0, count)
Sample ==
    /\ pc = "built"
    /\ \E i \in 0..(values.count - 1) :
          /\ index' = i
          /\ result' = get(values, i)
    /\ pc' = "returned"
    /\ UNCHANGED <<call, low, high, values, panic>>

\* SampleValueCollection::get(index), called with any index
Get ==
    /\ pc = "built"
    /\ \E i \in 0..(values.count - 1 + MaxOver) :
          /\ i <= INT_MAX
          /\ index' = i
          /\ IF get_asserts(values, i)
             THEN /\ result' = get(values, i)
                  /\ pc' = "returned"
                  /\ panic' = panic
             ELSE /\ result' = result
                  /\ pc' = "panicked"
                  /\ panic' = "index out of bounds"
    /\ UNCHANGED <<call, low, high, values>>

\* next_down(low)
NextDown ==
    /\ pc = "args"
    /\ call' = "next_down"
    /\ \E dbg \in BOOLEAN :
          IF dbg /\ ~valid_input(low)
          THEN /\ pc' = "panicked"
               /\ panic' = "next_down invalid input"
               /\ result' = result
          ELSE /\ pc' = "returned"
               /\ panic' = panic
               /\ result' = next_down(low)
    /\ UNCHANGED <<low, high, values, index>>

Next == New \/ NewInclusive \/ Sample \/ Get \/ NextDown

Spec == Init /\ [][Next]_vars

------------------------------------------------------------------------------
(* The claims.                                                              *)

FiniteBounds == is_finite(low) /\ is_finite(high)
Constructors == {"new", "new_inclusive"}
Last == values.count - 1
EndGap == abs(sub(get(values, Last), get(values, Last - 1)))

\* C1: every value a sampler returns lies in its interval: low <= v < high for
\* new(low, high) with finite low < high, low <= v <= high for
\* new_inclusive(low, high) with finite low <= high.
C1_SampleWithinInterval ==
    (pc = "returned" /\ call \in Constructors /\ FiniteBounds) =>
        /\ (call = "new" /\ lt(low, high)) => (le(low, result) /\ lt(result, high))
        /\ (call = "new_inclusive" /\ le(low, high)) =>
              (le(low, result) /\ le(result, high))

\* a half-open sampler over an interval around zero returned its last inner value
C1_Witness ==
    /\ pc = "returned" /\ call = "new" /\ FiniteBounds
    /\ lt(low, PosZero) /\ lt(PosZero, high)
    /\ index > 0 /\ index = Last - 1

\* C2: the values a sampler can return are exactly the representable floats of
\* its interval ([low, high) for new, [low, high] for new_inclusive); in
\* particular new_inclusive(1 - EPSILON, 1 + EPSILON) can return 1 - EPSILON/2
\* and new_inclusive(0, MAX_PRECISE_INT) can return a value with a fraction.
C2_AllFloatsPossible ==
    /\ (pc = "built" /\ call \in Constructors /\ FiniteBounds /\ le(low, high)) =>
          {Val(get(values, i)) : i \in 0..Last}
            = {Val(v) : v \in {w \in Floats : /\ is_finite(w)
                                              /\ le(low, w)
                                              /\ IF call = "new" THEN lt(w, high)
                                                                 ELSE le(w, high)}}
    /\ (/\ pc = "built" /\ call = "new_inclusive"
        /\ low = sub(One, EPSILON) /\ high = add(One, EPSILON)) =>
          \E i \in 0..Last : eq(get(values, i), sub(One, div(EPSILON, Two)))
    /\ (/\ pc = "built" /\ call = "new_inclusive"
        /\ low = PosZero /\ high = int_as_float(MAX_PRECISE_INT)) =>
          \E i \in 0..Last : Mag(get(values, i)) % ONE # 0

\* C3 as stated: the ends of the lattice of new_inclusive(low, high), in
\* ascending order, are bit for bit the pair (low, high).
C3_BoundsBitIdentical ==
    (pc = "built" /\ call = "new_inclusive" /\ FiniteBounds /\ le(low, high)) =>
        sort(get(values, 0), get(values, Last)) = <<low, high>>

\* C3 amended: the ends of the lattice, in ascending order, equal (low, high)
\* under float equality, and bit for bit unless low and high are zeros of
\* opposite sign.
C3_BoundsReproduced ==
    (pc = "built" /\ call = "new_inclusive" /\ FiniteBounds /\ le(low, high)) =>
        LET b == sort(get(values, 0), get(values, Last))
        IN /\ eq(b[1], low)
           /\ eq(b[2], high)
           /\ (Mag(low) # 0 \/ Mag(high) # 0 \/ low = high) => b = <<low, high>>

\* a lattice that starts at high and descends to low, over several points
C3_Witness ==
    /\ pc = "built" /\ call = "new_inclusive"
    /\ lt(abs(low), abs(high)) /\ lt(low, PosZero)
    /\ values.count > 2
    /\ get(values, 0) = high /\ get(values, Last) = low

\* C4: in the lattice of new_inclusive, get(i+1) - get(i) == step for every
\* i < count - 2, and get(i) is start + i * step without rounding.
C4_EquallySpaced ==
    (pc = "returned" /\ call = "new_inclusive" /\ index < values.count - 2) =>
        /\ eq(sub(get(values, index + 1), result), values.step)
        /\ Val(result) = Val(values.start) + index * Val(values.step)

\* an odd index above MAX_PRECISE_INT, which `index as $typ` would round
C4_Witness ==
    /\ pc = "returned" /\ call = "new_inclusive"
    /\ index > MAX_PRECISE_INT /\ index % 2 = 1 /\ index < values.count - 2

C6_SinglePoint ==
    (pc = "built" /\ call = "new_inclusive" /\ FiniteBounds /\ eq(low, high)) =>
        /\ values.count = 1
        /\ eq(get(values, 0), low)
        /\ (low = NegZero /\ high = PosZero) => get(values, 0) = PosZero

C6_Witness ==
    /\ pc = "built" /\ call = "new_inclusive"
    /\ low = NegZero /\ high = PosZero
    /\ values.count = 1

\* C7 as stated: both constructors accept finite low == high, build a lattice
\* of one point, and every sample is that point.
C7_EqualBoundsLegal ==
    (call \in Constructors /\ FiniteBounds /\ eq(low, high)) =>
        /\ values.count = 1
        /\ pc = "returned" => eq(result, low)

\* C7 amended: new_inclusive accepts finite low == high, builds a lattice of
\* one point and every sample is that point; new(low, high) with low == high
\* fails an assertion and builds no sampler.
C7_EqualBoundsInclusiveOnly ==
    (call \in Constructors /\ FiniteBounds /\ eq(low, high)) =>
        /\ call = "new_inclusive" =>
              /\ values.count = 1
              /\ pc = "returned" => eq(result, low)
        /\ call = "new" => (pc = "panicked" /\ values.count = 0)

C7_Witness ==
    /\ call = "new_inclusive" /\ pc = "returned"
    /\ low = high /\ is_finite(low) /\ Mag(low) # 0
    /\ result = low

\* C8: for every finite a > MIN, next_down(a) < a and no float lies strictly
\* between next_down(a) and a.
C8_NextDown ==
    (call = "next_down" /\ valid_input(low)) =>
        /\ pc = "returned"
        /\ lt(result, low)
        /\ \A v \in Floats : ~(lt(result, v) /\ lt(v, low))

\* next_down of a power of two, where the spacing of the floats changes
C8_Witness ==
    /\ call = "next_down" /\ pc = "returned"
    /\ sign_of(low) = 0 /\ frac_of(low) = 0 /\ exp_of(low) > 1 /\ is_finite(low)
    /\ exp_of(result) = exp_of(low) - 1

\* C9: a constructor given a non-finite bound or high < low fails an assertion
\* and builds no sampler, and get(index) with index >= count returns no value.
C9_ViolationsAbort ==
    /\ (call \in Constructors /\ (~FiniteBounds \/ lt(high, low))) =>
          (pc = "panicked" /\ values.count = 0)
    /\ (call \in Constructors /\ pc = "returned") => index < values.count

\* C10: for finite low <= high the lattice of new_inclusive is built with
\* count - 1 <= 2 * MAX_PRECISE_INT, and index / 2 converts to float exactly
\* for every index get accepts.
C10_CountBound ==
    (call = "new_inclusive" /\ FiniteBounds /\ le(low, high)) =>
        /\ values.count >= 1
        /\ values.count - 1 <= 2 * MAX_PRECISE_INT
        /\ pc = "returned" =>
              /\ index <= 2 * MAX_PRECISE_INT
              /\ Val(int_as_float(index \div 2)) = (index \div 2) * ONE

\* the largest lattice: count - 1 == 2 * MAX_PRECISE_INT, its last inner value
C10_Witness ==
    /\ call = "new_inclusive" /\ pc = "returned"
    /\ values.count - 1 = 2 * MAX_PRECISE_INT
    /\ index = Last - 1

====
